---- MODULE Spec2Model ----
(***************************************************************************)
(* Model of LasProcessor::process_lidar_files (src/src/lib.rs): one        *)
(* orchestrating thread that opens the first source, queues one reader job *)
(* per input path on a thread pool, opens the writers and then drains a    *)
(* bounded channel of (sink index, batch) messages into the sinks, while   *)
(* the reader jobs pull points, evaluate every condition and send batches. *)
(*                                                                         *)
(* A point is <<source, position>>; its x coordinate is position - 1, as   *)
(* in create_test_las_file (x = i for i in 0..10).  Every `.unwrap()` of   *)
(* an I/O result is a step that either succeeds or panics the thread that  *)
(* runs it.                                                                *)
(*                                                                         *)
(* SpecMon adds the ticks of the monitor thread and the counter locks it   *)
(* holds, FairSpec the scheduler's fairness, SpecStrip the runs with       *)
(* strip_extra_bytes, SpecBatch the runs through a channel of one slot,    *)
(* SpecRoute the runs under accept-all and small-x conditions, SpecLocks   *)
(* the monitored runs with batches of one record;                          *)
(* SpecPP and FairSpecPP are one call of process_points                    *)
(* (src/src/process_points.rs), SpecPool the sizing of the thread pool and *)
(* SpecMainRs the progress monitor of the binary (src/src/main.rs).        *)
(***************************************************************************)
EXTENDS Integers, Sequences, FiniteSets, TLC

\* ------------------------------------------------------------------ bounds
MaxShape   == 3     \* input paths plus conditions of one run
MaxPoints  == 2     \* points over all sources of one run
MaxVecSize == 2     \* vec_size values tried
MaxCap     == 2     \* channel capacities tried (channel::bounded(20) in the code)
SplitX     == 1     \* threshold of the crop conditions (x < 5.0 in the tests)
MaxThreads == 12    \* values of num_cpus::get() and of output_paths.len() tried for the pool
UsizeBits  == 8     \* width of usize in the pool-size arithmetic (64 in the build)
MaxTotal   == 4     \* records declared by the sources of the standalone binary
MaxElapsed == 3     \* whole seconds a tick of its monitor may measure

VARIABLES
    paths,                  \* self.paths: declared number_of_points per source
    output_paths,           \* self.output_paths.len()
    conditions,             \* self.conditions: sequence of filter names
    vec_size,               \* self.vec_size
    cap,                    \* capacity of the bounded channel
    sendthreads,            \* size of the reader thread pool
    total_points_to_read,   \* Mutex counters
    points_read,
    total_points_to_write,
    points_written,
    monitor,                \* TRUE once the progress monitor thread is spawned
    header,                 \* TRUE once the first source's header was read
    mpc,                    \* position of the orchestrating thread
    spawned,                \* number of reader jobs handed to the pool
    txMain,                 \* orchestrator still holds its Sender
    rxAlive,                \* the Receiver has not been dropped
    chan,                   \* messages buffered in the channel
    writers,                \* writers[i]: points appended to sink i so far
    cur,                    \* batch being written: [index, vec, n]
    result,                 \* "running", "Ok", "Err" or "panic"
    mainErr,                \* which unwrap panicked the orchestrator
    rpc,                    \* position of each reader job
    next,                   \* total_points_read of each reader job
    jx,                     \* condition index j of each reader job
    points_vecs,            \* points_vecs of each reader job
    strip_extra_bytes,      \* self.strip_extra_bytes
    sink_extra,             \* sink_extra[i]: extra_bytes of the points appended to sink i
    locks,                  \* which thread holds the Mutex of each counter
    mon,                    \* locals of the monitor thread
    pp,                     \* one call of process_points (process_points.rs)
    pool,                   \* the computation of the reader pool's size
    mainrs                  \* one tick of the monitor thread of main.rs

cfg      == <<paths, output_paths, conditions, vec_size, cap, sendthreads, strip_extra_bytes>>
counters == <<total_points_to_read, points_read, total_points_to_write, points_written>>
mainv    == <<monitor, header, mpc, spawned, txMain, rxAlive, writers, cur, result, mainErr>>
readerv  == <<rpc, next, jx, points_vecs>>
vars     == <<cfg, counters, mainv, readerv, chan, sink_extra, locks, mon, pp, pool, mainrs>>

\* ------------------------------------------------------------ pure helpers
Filters == {"always-true", "always-false", "x-below", "x-not-below"}

X(point) == point[2] - 1

\* a condition closure applied to a point
Accepts(f, point) ==
    CASE f = "always-true"  -> TRUE
      [] f = "always-false" -> FALSE
      [] f = "x-below"      -> X(point) < SplitX
      [] f = "x-not-below"  -> X(point) >= SplitX

Sources == 1..Len(paths)
Conds   == 1..Len(conditions)

NoBatch == [index |-> 0, vec |-> <<>>, n |-> 0]

EmptyVecs == [j \in Conds |-> <<>>]

RECURSIVE SumLen(_, _)
SumLen(seqs, n) == IF n = 0 THEN 0 ELSE Len(seqs[n]) + SumLen(seqs, n - 1)

RECURSIVE SumCounts(_, _)
SumCounts(ps, n) == IF n = 0 THEN 0 ELSE ps[n] + SumCounts(ps, n - 1)

PanicStates == {"panic_open", "panic_pull", "panic_send"}

\* the four Arc<Mutex<_>> counters, each named after the counter it guards
LockNames == {"total_points_to_read", "total_points_to_write", "points_written", "points_read"}

AllFree == [l \in LockNames |-> "free"]

\* .lock() returns at once only when no other thread holds the Mutex
Free(l) == locks[l] = "free"

HeldBy(task) == {l \in LockNames : locks[l] = task}

\* the guards of a thread go out of scope
ReleasedBy(task) == [l \in LockNames |-> IF locks[l] = task THEN "free" ELSE locks[l]]

\* the extra bytes a point of a source carries behind its core fields
ExtraBytes(point) == <<point[1]>>

\* variant: the extra bytes are written as they were read
KeepExtraBytes(extra_bytes) == extra_bytes

\* if self.strip_extra_bytes { point.extra_bytes.clear(); }
StripExtraBytes(extra_bytes) == IF strip_extra_bytes THEN <<>> ELSE extra_bytes

\* the monitor thread before its first tick
MonStart == [held |-> 0, previous_read |-> 0, previous_written |-> 0,
             underflow |-> FALSE, zero_divisor |-> FALSE]

\* no call of process_points is modelled in a run of process_lidar_files
NoCall == [pc |-> "none"]

\* a run whose pool size is given (sendthreads), not computed
NoPool == [pc |-> "none"]

\* the monitor of main.rs is not part of a run of process_lidar_files
NoTick == [pc |-> "none"]

\* variant: a job that panicked keeps its Sender
HoldsTxAfterPanic(s) == rpc[s] \notin {"unspawned", "done"}

\* variant: a job that no pool thread has taken yet holds no Sender
HoldsTxOnceRunning(s) == rpc[s] \in {"read", "count", "send", "fcount", "fsend"}

\* a reader job owns a clone of the Sender from pool.execute until its closure ends
HoldsTx(s) == rpc[s] \in {"queued", "read", "count", "send", "fcount", "fsend"}

Running(s) == rpc[s] \in {"read", "count", "send", "fcount", "fsend"}

\* variant: the loop ends on an empty channel once the orchestrator's own Sender is gone
DisconnectedMainOnly == ~txMain

\* rx.recv() returns Err: the channel is empty and every Sender is gone
Disconnected == ~txMain /\ \A s \in Sources : ~HoldsTx(s)

\* variant: the channel takes any number of messages
AlwaysRoom(ch) == TRUE

\* channel::bounded(cap): a send returns only when fewer than cap messages are buffered
HasRoom(ch) == Len(ch) < cap

\* variant: the newest message is received first
SendFront(ch, msg) == <<msg>> \o ch

\* tx.send(msg) on the FIFO channel
Send(ch, msg) == Append(ch, msg)

\* variant: the point is pushed whatever the condition says
PushAlways(vecs, j, point) == [vecs EXCEPT ![j] = Append(@, point)]

\* if condition(&point) { points_vecs[j].push(point.clone()) }
PushMatching(vecs, j, point) ==
    IF Accepts(conditions[j], point)
    THEN [vecs EXCEPT ![j] = Append(@, point)]
    ELSE vecs

\* -------------------------------------------------------------------- Init
\* the state at the entry of process_lidar_files
Start ==
    /\ total_points_to_read = 0
    /\ points_read = 0
    /\ total_points_to_write = 0
    /\ points_written = 0
    /\ monitor = FALSE
    /\ header = FALSE
    /\ mpc = "start"
    /\ spawned = 0
    /\ txMain = FALSE
    /\ rxAlive = FALSE
    /\ chan = <<>>
    /\ writers = <<>>
    /\ cur = NoBatch
    /\ result = "running"
    /\ mainErr = "none"
    /\ rpc = [s \in Sources |-> "unspawned"]
    /\ next = [s \in Sources |-> 0]
    /\ jx = [s \in Sources |-> 0]
    /\ points_vecs = [s \in Sources |-> EmptyVecs]
    /\ sink_extra = [i \in 1..output_paths |-> <<>>]
    /\ locks = AllFree
    /\ mon = MonStart

Init ==
    /\ paths \in UNION {[1..n -> 0..MaxPoints] : n \in 1..(MaxShape - 1)}
    /\ SumCounts(paths, Len(paths)) <= MaxPoints
    /\ conditions \in UNION {[1..n -> Filters] : n \in 1..(MaxShape - 1)}
    /\ Len(paths) + Len(conditions) <= MaxShape
    /\ output_paths \in 1..(MaxShape - 1)
    /\ vec_size \in 1..MaxVecSize
    /\ cap \in 1..MaxCap
    \* a pool of more threads than jobs runs the jobs as one of exactly that many does
    /\ sendthreads \in 1..Len(paths)
    \* the option changes nothing but the extra bytes written: its runs are those of InitStrip
    /\ strip_extra_bytes = FALSE
    /\ Start
    /\ pp = NoCall
    /\ pool = NoPool
    /\ mainrs = NoTick

\* runs with and without strip_extra_bytes, two conditions at most over one source
InitStrip ==
    /\ paths \in [1..1 -> 0..MaxPoints]
    /\ conditions \in UNION {[1..n -> Filters] : n \in 1..(MaxShape - 1)}
    /\ output_paths \in 1..(MaxShape - 1)
    /\ vec_size \in 1..MaxVecSize
    /\ cap = MaxCap
    /\ sendthreads = 1
    /\ strip_extra_bytes \in BOOLEAN
    /\ Start
    /\ pp = NoCall
    /\ pool = NoPool
    /\ mainrs = NoTick

\* ----------------------------------------------------------- orchestrator
\* unwinding of the orchestrating thread: the Receiver and what it buffers are dropped
MainPanic(why) ==
    /\ mpc' = "done"
    /\ result' = "panic"
    /\ mainErr' = why
    /\ txMain' = FALSE
    /\ rxAlive' = FALSE
    /\ chan' = <<>>
    /\ cur' = NoBatch

\* lib.rs 90-171: counters, thread::spawn(monitor), Reader::from_path(&self.paths[0]).unwrap(),
\* channel::bounded, ThreadPool::new (of sendthreads >= 1 threads, see Init)
MainOpenFirst ==
    /\ mpc = "start"
    /\ monitor' = TRUE
    /\ \/ /\ header' = TRUE
          /\ mpc' = "spawn"
          /\ txMain' = TRUE
          /\ rxAlive' = TRUE
          /\ UNCHANGED <<result, mainErr, chan, cur>>
       \/ /\ MainPanic("source_open")
          /\ UNCHANGED header
    /\ UNCHANGED <<cfg, counters, readerv, spawned, writers,
                   sink_extra, locks, mon, pp, pool, mainrs>>

\* lib.rs 176-185: pool.execute(closure holding tx.clone())
MainExecute ==
    /\ mpc = "spawn"
    /\ spawned < Len(paths)
    /\ spawned' = spawned + 1
    /\ rpc' = [rpc EXCEPT ![spawned + 1] = "queued"]
    /\ UNCHANGED <<cfg, counters, chan, monitor, header, mpc, txMain, rxAlive,
                   writers, cur, result, mainErr, next, jx, points_vecs,
                   sink_extra, locks, mon, pp, pool, mainrs>>

\* lib.rs 277: drop(tx)
MainDropTx ==
    /\ mpc = "spawn"
    /\ spawned = Len(paths)
    /\ txMain' = FALSE
    /\ mpc' = "writers"
    /\ UNCHANGED <<cfg, counters, chan, readerv, monitor, header, spawned, rxAlive,
                   writers, cur, result, mainErr,
                   sink_extra, locks, mon, pp, pool, mainrs>>

\* lib.rs 281-284: Writer::from_path(output_path, header.clone()).unwrap()
MainOpenWriter ==
    /\ mpc = "writers"
    /\ Len(writers) < output_paths
    /\ \/ /\ writers' = Append(writers, <<>>)
          /\ UNCHANGED <<mpc, result, mainErr, txMain, rxAlive, chan, cur>>
       \/ /\ MainPanic("sink_open")
          /\ UNCHANGED writers
    /\ UNCHANGED <<cfg, counters, readerv, monitor, header, spawned,
                   sink_extra, locks, mon, pp, pool, mainrs>>

\* lib.rs 285-286: while let Ok((index, points_vec)) = rx.recv()
MainRecv ==
    /\ mpc \in {"writers", "recv"}
    /\ Len(writers) = output_paths
    /\ \/ /\ chan # <<>>
          /\ cur' = [index |-> Head(chan)[1], vec |-> Head(chan)[2], n |-> Len(Head(chan)[2])]
          /\ chan' = Tail(chan)
          /\ mpc' = "write"
       \/ /\ chan = <<>>
          /\ Disconnected
          /\ mpc' = "finish"
          /\ UNCHANGED <<chan, cur>>
    /\ UNCHANGED <<cfg, counters, readerv, monitor, header, spawned, txMain, rxAlive,
                   writers, result, mainErr,
                   sink_extra, locks, mon, pp, pool, mainrs>>

\* lib.rs 288-293: writers[index].write_point(point).unwrap()
MainWritePoint ==
    /\ mpc = "write"
    /\ cur.vec # <<>>
    /\ \/ /\ cur.index <= Len(writers)
          /\ writers' = [writers EXCEPT ![cur.index] = Append(@, Head(cur.vec))]
          /\ sink_extra' = [sink_extra EXCEPT ![cur.index] =
                                Append(@, StripExtraBytes(ExtraBytes(Head(cur.vec))))]
          /\ cur' = [cur EXCEPT !.vec = Tail(@)]
          /\ UNCHANGED <<mpc, result, mainErr, txMain, rxAlive, chan>>
       \/ /\ cur.index <= Len(writers)
          /\ MainPanic("append")
          /\ UNCHANGED <<writers, sink_extra>>
       \/ /\ cur.index > Len(writers)
          /\ MainPanic("index")
          /\ UNCHANGED <<writers, sink_extra>>
    /\ UNCHANGED <<cfg, counters, readerv, monitor, header, spawned,
                   locks, mon, pp, pool, mainrs>>

\* the counter moved by one for the whole batch
CountOne(points_w, no_of_points) == points_w + 1

\* lib.rs 294-300: *points_w += no_of_points, after the for loop over the batch
CountBatch(points_w, no_of_points) == points_w + no_of_points

\* lib.rs 294-300: the batch is appended, the counter is taken and moved
MainCountWritten ==
    /\ mpc = "write"
    /\ cur.vec = <<>>
    /\ Free("points_written")
    /\ points_written' = CountBatch(points_written, cur.n)
    /\ cur' = NoBatch
    /\ mpc' = "recv"
    /\ UNCHANGED <<cfg, total_points_to_read, points_read, total_points_to_write, chan,
                   readerv, monitor, header, spawned, txMain, rxAlive, writers, result, mainErr,
                   sink_extra, locks, mon, pp, pool, mainrs>>

\* variant: the orchestrator takes points_read first
MainLocksReadFirst == <<"points_read", "points_written">>

\* the counter locks the orchestrator takes after the write loop, in this order
MainLocks == <<"points_written", "points_read">>

\* lib.rs 303-307: points_written.lock(), then points_read.lock(), each blocking while the
\* monitor holds the Mutex; the guards live to the end of the function
MainLock ==
    /\ mpc = "finish"
    /\ Cardinality(HeldBy("main")) < Len(MainLocks)
    /\ Free(MainLocks[Cardinality(HeldBy("main")) + 1])
    /\ locks' = [locks EXCEPT ![MainLocks[Cardinality(HeldBy("main")) + 1]] = "main"]
    /\ UNCHANGED <<cfg, counters, chan, readerv, mainv, sink_extra, mon, pp, pool, mainrs>>

\* lib.rs 309-317: summary line, Ok(()), the two guards and the Receiver are dropped
MainFinish ==
    /\ mpc = "finish"
    /\ Cardinality(HeldBy("main")) = Len(MainLocks)
    /\ locks' = ReleasedBy("main")
    /\ mpc' = "done"
    /\ result' = "Ok"
    /\ rxAlive' = FALSE
    /\ UNCHANGED <<cfg, counters, chan, readerv, monitor, header, spawned, txMain,
                   writers, cur, mainErr,
                   sink_extra, mon, pp, pool, mainrs>>

\* ---------------------------------------------------------------- readers
\* unwinding of a reader job: its Sender and its local batches are dropped
ReaderPanic(s, why) ==
    /\ rpc' = [rpc EXCEPT ![s] = why]
    /\ points_vecs' = [points_vecs EXCEPT ![s] = EmptyVecs]
    /\ jx' = [jx EXCEPT ![s] = 0]

\* variant: the declared count of the source is not added
AddNothing(total, number_of_points) == total

\* lib.rs 188-201: *total_points_to_read += number_of_points
AddDeclared(total, number_of_points) == total + number_of_points

\* a pool thread takes the oldest queued job (at most sendthreads jobs run at a time), then
\* lib.rs 186-207: Reader::from_path(&path).unwrap(), *total_points_to_read += n, then
\* Reader::from_path(&path).unwrap() again: either open may fail
ReaderOpen(s) ==
    /\ rpc[s] = "queued"
    /\ \A t \in Sources : t < s => rpc[t] # "queued"
    /\ Cardinality({t \in Sources : Running(t)}) < sendthreads
    /\ \/ /\ Free("total_points_to_read")
          /\ total_points_to_read' = AddDeclared(total_points_to_read, paths[s])
          /\ rpc' = [rpc EXCEPT ![s] = "read"]
          /\ UNCHANGED <<jx, points_vecs>>
       \/ /\ ReaderPanic(s, "panic_open")
          /\ UNCHANGED total_points_to_read
       \/ /\ Free("total_points_to_read")
          /\ total_points_to_read' = AddDeclared(total_points_to_read, paths[s])
          /\ ReaderPanic(s, "panic_open")
    /\ UNCHANGED <<cfg, points_read, total_points_to_write, points_written, mainv, chan, next,
                   sink_extra, locks, mon, pp, pool, mainrs>>

\* lib.rs 222-225: the iterations of `for (j, condition) in conditions.iter().enumerate()`
\* from index j on that touch only the job's own batches: it stops at the first index whose
\* batch reached vec_size (the job then locks total_points_to_write), or past the last one
RECURSIVE RouteFrom(_, _, _)
RouteFrom(vecs, j, point) ==
    IF j > Len(conditions)
    THEN [vecs |-> vecs, j |-> j]
    ELSE LET pushed == PushMatching(vecs, j, point) IN
         IF Accepts(conditions[j], point) /\ Len(pushed[j]) >= vec_size
         THEN [vecs |-> pushed, j |-> j]
         ELSE RouteFrom(pushed, j + 1, point)

\* variant: the closure ends without the flush loop
FlushNothing(vecs, j) == Len(conditions) + 1

\* lib.rs 242-243: the iterations of the flush loop from index j on that skip empty batches
RECURSIVE FlushFrom(_, _)
FlushFrom(vecs, j) ==
    IF j > Len(conditions) \/ vecs[j] # <<>> THEN j ELSE FlushFrom(vecs, j + 1)

\* position of a job after its local loop stopped at index j
AfterRoute(j) == IF j > Len(conditions) THEN "read" ELSE "count"
AfterFlush(j) == IF j > Len(conditions) THEN "done" ELSE "fcount"

\* lib.rs 210-225: next item of reader.points(), wrapped_point.unwrap(), *points += 1, then
\* the condition loop up to its first full batch; at the end of the source (lib.rs 242-243,
\* 257-274) the flush loop up to its first non-empty batch, or the end of the closure
ReaderPull(s) ==
    /\ rpc[s] = "read"
    /\ \/ /\ next[s] < paths[s]
          /\ Free("points_read")
          /\ LET r == RouteFrom(points_vecs[s], 1, <<s, next[s] + 1>>) IN
             /\ points_vecs' = [points_vecs EXCEPT ![s] = r.vecs]
             /\ jx' = [jx EXCEPT ![s] = r.j]
             /\ rpc' = [rpc EXCEPT ![s] = AfterRoute(r.j)]
          /\ next' = [next EXCEPT ![s] = @ + 1]
          /\ points_read' = points_read + 1
       \/ /\ next[s] < paths[s]
          /\ ReaderPanic(s, "panic_pull")
          /\ UNCHANGED <<next, points_read>>
       \/ /\ next[s] = paths[s]
          /\ LET j == FlushFrom(points_vecs[s], 1) IN
             /\ jx' = [jx EXCEPT ![s] = j]
             /\ rpc' = [rpc EXCEPT ![s] = AfterFlush(j)]
          /\ UNCHANGED <<next, points_read, points_vecs>>
    /\ UNCHANGED <<cfg, total_points_to_read, total_points_to_write, points_written, mainv, chan,
                   sink_extra, locks, mon, pp, pool, mainrs>>

\* variant: the batch is sent without being announced
AnnounceNothing(points_tw, len) == points_tw

\* lib.rs 226-232 and 244-250: *points_tw += points_vecs[j].len()
Announce(points_tw, len) == points_tw + len

\* lib.rs 226-232 and 244-250: the to-write counter is taken and moved, before the send
ReaderCount(s) ==
    /\ rpc[s] \in {"count", "fcount"}
    /\ Free("total_points_to_write")
    /\ total_points_to_write' = Announce(total_points_to_write, Len(points_vecs[s][jx[s]]))
    /\ rpc' = [rpc EXCEPT ![s] = IF rpc[s] = "count" THEN "send" ELSE "fsend"]
    /\ UNCHANGED <<cfg, total_points_to_read, points_read, points_written, mainv, chan,
                   next, jx, points_vecs,
                   sink_extra, locks, mon, pp, pool, mainrs>>

\* lib.rs 233-236 and 251-253: tx.send((j, vec)).unwrap(), blocking while the channel is
\* full, then the rest of the loop the send was in, as in ReaderPull
ReaderSend(s) ==
    /\ rpc[s] \in {"send", "fsend"}
    /\ \/ /\ rxAlive
          /\ HasRoom(chan)
          /\ chan' = Send(chan, <<jx[s], points_vecs[s][jx[s]]>>)
          /\ LET cleared == [points_vecs[s] EXCEPT ![jx[s]] = <<>>] IN
             IF rpc[s] = "send"
             THEN LET r == RouteFrom(cleared, jx[s] + 1, <<s, next[s]>>) IN
                  /\ points_vecs' = [points_vecs EXCEPT ![s] = r.vecs]
                  /\ jx' = [jx EXCEPT ![s] = r.j]
                  /\ rpc' = [rpc EXCEPT ![s] = AfterRoute(r.j)]
             ELSE LET j == FlushFrom(cleared, jx[s] + 1) IN
                  /\ points_vecs' = [points_vecs EXCEPT ![s] = cleared]
                  /\ jx' = [jx EXCEPT ![s] = j]
                  /\ rpc' = [rpc EXCEPT ![s] = AfterFlush(j)]
       \/ /\ ~rxAlive
          /\ ReaderPanic(s, "panic_send")
          /\ UNCHANGED chan
    /\ UNCHANGED <<cfg, counters, mainv, next,
                   sink_extra, locks, mon, pp, pool, mainrs>>

\* ---------------------------------------------------------------- monitor
\* variant: a tick locks points_read before points_written
MonitorLocksReadFirst == <<"points_read", "points_written", "total_points_to_read",
                           "total_points_to_write">>

\* the counter locks one tick of the monitor takes, in this order (lib.rs 108-127)
MonitorLocks == <<"points_written", "points_read", "total_points_to_read",
                  "total_points_to_write">>

\* variant: a tick never takes the idle branch
IdleNever(points_r, points_w) == FALSE

\* the idle check turned round
IdleInverted(points_r, points_w) == ~(points_r = 0 /\ points_w = 0)

\* lib.rs 114: if *points_r == 0 && *points_w == 0
Idle(points_r, points_w) == points_r = 0 /\ points_w = 0

\* variant: the tick resets the counters it reported, as the monitor of main.rs does
ResetByTick(counter) == 0

\* lib.rs 131-144: the tick reads *points_r and *points_w and writes neither
AfterTick(counter) == counter

\* lib.rs 106-127: after the sleep, the next .lock() of the tick, blocking while another
\* thread holds the Mutex; the third one is reached only past the idle check
MonitorLock ==
    /\ monitor
    /\ mon.held < Len(MonitorLocks)
    /\ mon.held = 2 => ~Idle(points_read, points_written)
    /\ Free(MonitorLocks[mon.held + 1])
    /\ locks' = [locks EXCEPT ![MonitorLocks[mon.held + 1]] = "monitor"]
    /\ mon' = [mon EXCEPT !.held = @ + 1]
    /\ UNCHANGED <<cfg, counters, mainv, readerv, chan, sink_extra, pp, pool, mainrs>>

\* lib.rs 114-120: the idle notice and `continue`, which drops the two guards
MonitorIdle ==
    /\ mon.held = 2
    /\ Idle(points_read, points_written)
    /\ locks' = ReleasedBy("monitor")
    /\ mon' = [mon EXCEPT !.held = 0]
    /\ UNCHANGED <<cfg, counters, mainv, readerv, chan, sink_extra, pp, pool, mainrs>>

\* lib.rs 124-145: the two subtractions of what is left, the percentage (a division by
\* *total_points_to_read), the two deltas, the report line, previous_read and
\* previous_written; the four guards are dropped at the end of the block
MonitorReport ==
    /\ mon.held = Len(MonitorLocks)
    /\ mon' = [held             |-> 0,
               previous_read    |-> points_read,
               previous_written |-> points_written,
               underflow        |-> \/ mon.underflow
                                    \/ total_points_to_read - points_read < 0
                                    \/ total_points_to_write - points_written < 0
                                    \/ points_read - mon.previous_read < 0
                                    \/ points_written - mon.previous_written < 0,
               zero_divisor     |-> mon.zero_divisor \/ total_points_to_read = 0]
    /\ locks' = ReleasedBy("monitor")
    /\ points_read' = AfterTick(points_read)
    /\ points_written' = AfterTick(points_written)
    /\ UNCHANGED <<cfg, total_points_to_read, total_points_to_write, mainv, readerv, chan,
                   sink_extra, pp, pool, mainrs>>

Next ==
    \/ MainOpenFirst
    \/ MainExecute
    \/ MainDropTx
    \/ MainOpenWriter
    \/ MainRecv
    \/ MainWritePoint
    \/ MainCountWritten
    \/ MainLock
    \/ MainFinish
    \/ \E s \in Sources : ReaderOpen(s)
    \/ \E s \in Sources : ReaderPull(s)
    \/ \E s \in Sources : ReaderCount(s)
    \/ \E s \in Sources : ReaderSend(s)

Spec == Init /\ [][Next]_vars

\* the steps of the orchestrating thread
MainStep ==
    \/ MainOpenFirst
    \/ MainExecute
    \/ MainDropTx
    \/ MainOpenWriter
    \/ MainRecv
    \/ MainWritePoint
    \/ MainCountWritten
    \/ MainLock
    \/ MainFinish

\* the steps of the pool thread that runs the job of source s
ReaderStep(s) ==
    /\ s \in Sources
    /\ ReaderOpen(s) \/ ReaderPull(s) \/ ReaderCount(s) \/ ReaderSend(s)

\* runs whose batches are single points through a channel of capacity 1
InitFair ==
    /\ Init
    /\ vec_size = 1
    /\ cap = 1
    /\ \A j \in Conds : conditions[j] \in {"always-true", "x-below"}

\* the scheduler lets every thread that can take a step take one, and no call hangs
FairSpec ==
    /\ InitFair
    /\ [][Next]_vars
    /\ WF_vars(MainStep)
    /\ \A s \in 1..(MaxShape - 1) : WF_vars(ReaderStep(s))

\* --------------------------------------------------------- process_points
Min(a, b) == IF a <= b THEN a ELSE b

\* entry of process_points(reader, writer, vec, points_read, points_written,
\* points_per_cycle, vec_size, condition) on a reader with avail points left, an empty vec
\* and counters at 0
Entry(avail, points_per_cycle, size, condition) ==
    [pc |-> "read", avail |-> avail, pos |-> 0, vec_size |-> size, condition |-> condition,
     points_per_cycle |-> points_per_cycle, points_remaining |-> points_per_cycle, points_read_from_reader |-> 0, vec |-> <<>>,
     point |-> <<>>, out |-> <<>>, points_read |-> 0, points_written |-> 0,
     result |-> "running", failed |-> "none"]

\* the `?` operator on an Err: the function returns Err(MyError)
Propagate(p, what) == [p EXCEPT !.pc = "returned", !.result = "Err", !.failed = what]

\* variant: a failed write is printed and the loop goes on, as process_points of main.rs does
WriteFailedPrinted(p) == [p EXCEPT !.pc = "pop", !.failed = "write"]

\* process_points.rs 78-81: .write(point)? on an Err
WriteFailed(p) == Propagate(p, "write")

\* variant: every request asks for a whole vector
WholeVec(points_remaining, size) == size

\* process_points.rs 62: let to_be_read = cmp::min(points_remaining, vec_size)
ToBeRead(points_remaining, size) == Min(points_remaining, size)

\* process_points.rs 62-70: reader.read_n_into(min(points_remaining, vec_size), vec)?, which
\* appends to vec the points it read; break on 0 points, then Ok(())
ReadBatch ==
    /\ pp.pc = "read"
    /\ LET to_be_read == ToBeRead(pp.points_remaining, pp.vec_size)
           n          == Min(to_be_read, pp.avail - pp.pos)
       IN  \/ /\ n > 0
              /\ pp' = Propagate(pp, "read")
           \/ /\ n = 0
              /\ pp' = [pp EXCEPT !.pc = "returned", !.result = "Ok",
                                  !.points_read_from_reader = 0]
           \/ /\ n > 0
              /\ pp' = [pp EXCEPT !.pc = "count",
                                  !.vec = @ \o [k \in 1..n |-> <<1, pp.pos + k>>],
                                  !.pos = @ + n,
                                  !.points_remaining = @ - n,
                                  !.points_read_from_reader = n]
    /\ UNCHANGED <<cfg, counters, mainv, readerv, chan, sink_extra, locks, mon, pool, mainrs>>

\* process_points.rs 71-74: points_read.lock().map_err(|_| MyError::LockError)?, *points += n
CountRead ==
    /\ pp.pc = "count"
    /\ \/ pp' = Propagate(pp, "lock_points_read")
       \/ pp' = [pp EXCEPT !.pc = "pop", !.points_read = @ + pp.points_read_from_reader]
    /\ UNCHANGED <<cfg, counters, mainv, readerv, chan, sink_extra, locks, mon, pool, mainrs>>

\* variant: the buffer is drained from its front
PopFront(vec) == [point |-> Head(vec), rest |-> Tail(vec)]

\* process_points.rs 75: vec.pop() removes and returns the last element of a non-empty Vec
Pop(vec) == [point |-> vec[Len(vec)], rest |-> SubSeq(vec, 1, Len(vec) - 1)]

\* process_points.rs 75-76: while let Some(point) = vec.pop() { if condition(&point)
PopPoint ==
    /\ pp.pc = "pop"
    /\ IF pp.vec = <<>>
       THEN pp' = [pp EXCEPT !.pc = "read"]
       ELSE LET point == Pop(pp.vec).point IN
            pp' = [pp EXCEPT !.vec = Pop(pp.vec).rest,
                             !.point = point,
                             !.pc = IF Accepts(pp.condition, point) THEN "write" ELSE "pop"]
    /\ UNCHANGED <<cfg, counters, mainv, readerv, chan, sink_extra, locks, mon, pool, mainrs>>

\* process_points.rs 77-82: writer.lock().map_err(|_| MyError::LockError)?.write(point)?
WritePoint ==
    /\ pp.pc = "write"
    /\ \/ pp' = Propagate(pp, "lock_writer")
       \/ pp' = WriteFailed(pp)
       \/ pp' = [pp EXCEPT !.pc = "written", !.out = Append(@, pp.point)]
    /\ UNCHANGED <<cfg, counters, mainv, readerv, chan, sink_extra, locks, mon, pool, mainrs>>

\* process_points.rs 83-86: points_written.lock().map_err(|_| MyError::LockError)?,
\* *points_w += 1
CountWritten ==
    /\ pp.pc = "written"
    /\ \/ pp' = Propagate(pp, "lock_points_written")
       \/ pp' = [pp EXCEPT !.pc = "pop", !.points_written = @ + 1]
    /\ UNCHANGED <<cfg, counters, mainv, readerv, chan, sink_extra, locks, mon, pool, mainrs>>

\* one call of process_points, apart from any run of process_lidar_files
InitPP ==
    /\ paths = <<0>>
    /\ conditions = <<"always-true">>
    /\ output_paths = 1
    /\ vec_size = 1
    /\ cap = 1
    /\ sendthreads = 1
    /\ strip_extra_bytes = FALSE
    /\ Start
    /\ pp \in {Entry(avail, quota, size, f) :
                 avail \in 0..(MaxPoints + 1), quota \in 0..(MaxPoints + 2),
                 size \in 0..MaxVecSize, f \in Filters}
    /\ pool = NoPool
    /\ mainrs = NoTick

NextPP ==
    \/ ReadBatch
    \/ CountRead
    \/ PopPoint
    \/ WritePoint
    \/ CountWritten

SpecPP == InitPP /\ [][NextPP]_vars

\* the call runs on its caller's thread, which goes on as long as it has a next statement
FairSpecPP == SpecPP /\ WF_vars(NextPP)

\* ---------------------------------------------------------------- pool size
\* usize subtraction in a build without overflow checks
WrappingSub(a, b) == (a - b + 2^UsizeBits) % 2^UsizeBits

\* lib.rs 170: let sendthreads = num_threads - 2 - self.output_paths.len(); a build with
\* overflow checks panics when a subtraction goes below zero, the other one wraps
PoolSize ==
    /\ pool.pc = "entry"
    /\ \/ /\ pool.num_threads - 2 >= 0
          /\ pool.num_threads - 2 - output_paths >= 0
          /\ pool' = [pool EXCEPT !.pc = "computed",
                                  !.sendthreads = pool.num_threads - 2 - output_paths]
       \/ /\ \/ pool.num_threads - 2 < 0
             \/ pool.num_threads - 2 - output_paths < 0
          /\ \/ pool' = [pool EXCEPT !.pc = "panic_overflow"]
             \/ pool' = [pool EXCEPT !.pc = "computed",
                                     !.sendthreads = WrappingSub(WrappingSub(pool.num_threads, 2),
                                                                 output_paths)]
    /\ UNCHANGED <<cfg, counters, mainv, readerv, chan, sink_extra, locks, mon, pp, mainrs>>

\* lib.rs 171: ThreadPool::new(sendthreads), which asserts that its argument is at least 1
PoolNew ==
    /\ pool.pc = "computed"
    /\ pool' = [pool EXCEPT !.pc = IF pool.sendthreads >= 1 THEN "created" ELSE "panic_zero"]
    /\ UNCHANGED <<cfg, counters, mainv, readerv, chan, sink_extra, locks, mon, pp, mainrs>>

\* lib.rs 87 and 170-171 on a machine of 1..MaxThreads logical cores, for 1..MaxThreads sinks
InitPool ==
    /\ paths = <<0>>
    /\ conditions = <<"always-true">>
    /\ output_paths \in 1..MaxThreads
    /\ vec_size = 1
    /\ cap = 1
    /\ sendthreads = 1
    /\ strip_extra_bytes = FALSE
    /\ Start
    /\ pp = NoCall
    /\ pool \in {[pc |-> "entry", num_threads |-> n, sendthreads |-> 0] : n \in 1..MaxThreads}
    /\ mainrs = NoTick

NextPool ==
    \/ PoolSize
    \/ PoolNew

SpecPool == InitPool /\ [][NextPool]_vars

-----------------------------------------------------------------------------
\* The progress monitor of the standalone binary (main.rs 36-67) and the workers that feed
\* its counters.  unread is the number of records the readers have not yet handed out.

MRSFrame == UNCHANGED <<cfg, counters, mainv, readerv, chan, sink_extra, locks, mon, pp, pool>>

\* main.rs 156-163: a worker reads a block and adds its length to points_read; it needs the
\* lock of points_read, which the monitor holds from its check to the end of its tick
WorkerRead ==
    /\ mainrs.pc = "sleep"
    /\ \E n \in 1..mainrs.unread :
          mainrs' = [mainrs EXCEPT !.points_r = @ + n, !.unread = @ - n]
    /\ MRSFrame

\* main.rs 42-46: if *points_r == 0 { println!(..); *points_r = 0; continue; }
TickIdle ==
    /\ mainrs.pc = "sleep"
    /\ mainrs.points_r = 0
    /\ mainrs' = [mainrs EXCEPT !.out = "idle"]
    /\ MRSFrame

\* main.rs 47-52: *total_points -= *points_r, the first println, under the three locks
TickSubtract ==
    /\ mainrs.pc = "sleep"
    /\ mainrs.points_r # 0
    /\ mainrs' = [mainrs EXCEPT !.pc = "elapsed", !.total_points = @ - mainrs.points_r]
    /\ MRSFrame

\* main.rs 37-38, 53-54: start was taken before the sleep of one second, so elapsed().as_secs()
\* is 1 or more (the tick may have waited for its locks); points_r / time_elapsed rounds down
TickRate ==
    /\ mainrs.pc = "elapsed"
    /\ \E t \in 1..MaxElapsed :
          mainrs' = [mainrs EXCEPT !.pc = "rate", !.time_elapsed = t,
                                   !.points_per_second = mainrs.points_r \div t]
    /\ MRSFrame

\* main.rs 55: *total_points / points_per_second; an integer division by zero panics
TickTimeLeft ==
    /\ mainrs.pc = "rate"
    /\ \/ /\ mainrs.points_per_second # 0
          /\ mainrs' = [mainrs EXCEPT !.pc = "report",
                           !.time_left_seconds = mainrs.total_points \div mainrs.points_per_second]
       \/ /\ mainrs.points_per_second = 0
          /\ mainrs' = [mainrs EXCEPT !.pc = "panic_div"]
    /\ MRSFrame

\* main.rs 56-65: the second println, *points = 0; *points_r = 0; and the next turn of the loop
TickReset ==
    /\ mainrs.pc = "report"
    /\ mainrs' = [mainrs EXCEPT !.pc = "sleep", !.points_r = 0, !.out = "status"]
    /\ MRSFrame

\* main.rs 84-92: total_points is the sum of the declared counts before any worker starts
InitMainRs ==
    /\ paths = <<0>>
    /\ conditions = <<"always-true">>
    /\ output_paths = 1
    /\ vec_size = 1
    /\ cap = 1
    /\ sendthreads = 1
    /\ strip_extra_bytes = FALSE
    /\ Start
    /\ pp = NoCall
    /\ pool = NoPool
    /\ mainrs \in {[pc |-> "sleep", points_r |-> 0, total_points |-> n, unread |-> n,
                     time_elapsed |-> 0, points_per_second |-> 0, time_left_seconds |-> 0,
                     out |-> "none"] : n \in 0..MaxTotal}

NextMainRs ==
    \/ WorkerRead
    \/ TickIdle
    \/ TickSubtract
    \/ TickRate
    \/ TickTimeLeft
    \/ TickReset

SpecMainRs == InitMainRs /\ [][NextMainRs]_vars

\* the runs of InitStrip
SpecStrip == InitStrip /\ [][Next]_vars

\* the run together with the ticks of its monitor thread
NextMon ==
    \/ Next
    \/ MonitorLock
    \/ MonitorIdle
    \/ MonitorReport

\* runs into one sink through a channel of capacity 1, conditions of two kinds
InitMon ==
    /\ Init
    /\ cap = 1
    /\ output_paths = 1
    /\ \A j \in Conds : conditions[j] \in {"always-true", "x-below"}

SpecMon == InitMon /\ [][NextMon]_vars

\* The runs in which waiting is looked at: batches of one record through a channel of one
\* slot into one sink, together with the ticks of the monitor
InitLocks ==
    /\ InitMon
    /\ vec_size = 1

SpecLocks == InitLocks /\ [][NextMon]_vars

\* The runs in which batches are looked at: every shape, batch size and pool size, through
\* a channel of one slot
InitBatch ==
    /\ Init
    /\ cap = 1
    /\ \A j \in Conds : conditions[j] \in {"always-true", "x-below"}

SpecBatch == InitBatch /\ [][Next]_vars

\* The runs in which routing and the channel are looked at: every shape, batch size, pool
\* size and capacity, with conditions that accept every point or the points of small x
InitRoute ==
    /\ Init
    /\ \A j \in Conds : conditions[j] \in {"always-true", "x-below"}

SpecRoute == InitRoute /\ [][Next]_vars

\* ------------------------------------------------------------ properties
CountIn(seq, p) == Cardinality({k \in 1..Len(seq) : seq[k] = p})

SinkCount(i, p) == IF i <= Len(writers) THEN CountIn(writers[i], p) ELSE 0

AllAccepted(j, vec) ==
    \A k \in 1..Len(vec) : j \in Conds /\ Accepts(conditions[j], vec[k])

\* the points of all sources that condition i accepts
AcceptedBy(i) ==
    IF i \in Conds
    THEN {p \in UNION {{<<s, k>> : k \in 1..paths[s]} : s \in Sources} :
            Accepts(conditions[i], p)}
    ELSE {}

ReaderFailed == \E s \in Sources : rpc[s] \in PanicStates

ReadersTerminated == \A s \in Sources : rpc[s] \in {"done"} \cup PanicStates

\* C1: every record in a reader's local batch j, in a channel message tagged j, in the
\* batch being written to sink j, or already appended to sink j satisfies condition j
C1_OnlyAcceptedRouted ==
    /\ \A s \in Sources : \A j \in Conds : AllAccepted(j, points_vecs[s][j])
    /\ \A m \in 1..Len(chan) : AllAccepted(chan[m][1], chan[m][2])
    /\ AllAccepted(cur.index, cur.vec)
    /\ \A i \in 1..Len(writers) : AllAccepted(i, writers[i])

\* a finished run whose sink i holds a record while condition i rejected another record read
C1_Witness ==
    /\ result = "Ok"
    /\ \E i \in 1..Len(writers) :
          /\ writers[i] # <<>>
          /\ i \in Conds
          /\ \E s \in Sources : \E k \in 1..next[s] : ~Accepts(conditions[i], <<s, k>>)

\* C2: after a run that returned Ok, sink i holds exactly the records of all sources that
\* condition i accepts, each once
C2_SinkCountExact ==
    result = "Ok" =>
        \A i \in 1..output_paths :
            /\ Len(writers[i]) = Cardinality(AcceptedBy(i))
            /\ \A p \in AcceptedBy(i) : CountIn(writers[i], p) = 1

\* C2 in the runs in which no reader job panicked
C2_IfNoReaderFailed == ~ReaderFailed => C2_SinkCountExact

Complementary(f, g) == \A k \in 1..MaxPoints : Accepts(f, <<1, k>>) # Accepts(g, <<1, k>>)

\* C3: two complementary conditions over one source into two sinks: after the run the two
\* sinks together hold as many records as the source declares, and no record is in both
C3_ComplementSplits ==
    (/\ result = "Ok"
     /\ Len(paths) = 1
     /\ Len(conditions) = 2
     /\ output_paths = 2
     /\ Complementary(conditions[1], conditions[2]))
    => /\ Len(writers[1]) + Len(writers[2]) = paths[1]
       /\ \A k \in 1..paths[1] : ~(SinkCount(1, <<1, k>>) > 0 /\ SinkCount(2, <<1, k>>) > 0)

\* C3 in the runs in which no reader job panicked
C3_IfNoReaderFailed == ~ReaderFailed => C3_ComplementSplits

\* C4: after the run every record a reader read is in sink j exactly once for every
\* condition j that accepts it, and in no other sink
C4_MultiDispatch ==
    result = "Ok" =>
        \A s \in Sources : \A k \in 1..next[s] : \A j \in Conds :
            SinkCount(j, <<s, k>>) = IF Accepts(conditions[j], <<s, k>>) THEN 1 ELSE 0

\* C4 in the runs in which no reader job panicked
C4_IfNoReaderFailed == ~ReaderFailed => C4_MultiDispatch

\* C5: with as many conditions as output paths or not at all: a run whose counts differ
\* spawns no monitor, opens no source, queues no reader, creates no sink, and ends in Err
C5_MismatchRejected ==
    Len(conditions) # output_paths =>
        /\ ~monitor
        /\ ~header
        /\ spawned = 0
        /\ writers = <<>>
        /\ mpc = "done" => result = "Err"

\* C6: a run that found an input path missing returns Err, with no sink opened
C6_MissingInputIsErr ==
    (/\ mpc = "done"
     /\ \/ mainErr = "source_open"
        \/ \E s \in Sources : rpc[s] = "panic_open")
    => /\ result = "Err"
       /\ writers = <<>>

\* C7: a run in which a reader job failed does not return Ok
C7_ReaderFailureSurfaced == result = "Ok" => ~ReaderFailed

\* C8: a run in which opening a sink or appending to a sink failed returns Err
C8_SinkFailureIsErr == mainErr \in {"sink_open", "append"} => result = "Err"

\* C9: when the run has returned Ok, every reader job has terminated, no Sender is left,
\* the channel is empty, no batch is half written, and the records written are the
\* records counted to write and the records the sinks hold
C9_OkMeansDrained ==
    result = "Ok" =>
        /\ ReadersTerminated
        /\ ~txMain
        /\ chan = <<>>
        /\ cur = NoBatch
        /\ points_written = total_points_to_write
        /\ SumLen(writers, Len(writers)) = points_written

\* a run of two readers that returned Ok after writing at least two records
C9_Witness ==
    /\ result = "Ok"
    /\ Len(paths) >= 2
    /\ points_written >= 2

\* C10: in every sink the records of one source stand in the order the reader of that
\* source read them
C10_SourceOrderKept ==
    \A i \in 1..Len(writers) : \A a \in 1..Len(writers[i]) : \A b \in 1..Len(writers[i]) :
        (a < b /\ writers[i][a][1] = writers[i][b][1]) => writers[i][a][2] < writers[i][b][2]

\* a sink that received two records of one source in two batches
C10_Witness ==
    /\ vec_size = 1
    /\ \E i \in 1..Len(writers) : \E a \in 1..Len(writers[i]) : \E b \in 1..Len(writers[i]) :
          a < b /\ writers[i][a][1] = writers[i][b][1]

\* C11: the extra bytes written with the k-th record of a sink are empty when
\* strip_extra_bytes is set and those of the record as read when it is not, and the record
\* itself is one a reader read, with the core fields it was read with
C11_StripClearsExtraBytes ==
    \A i \in 1..Len(writers) :
        /\ Len(sink_extra[i]) = Len(writers[i])
        /\ \A k \in 1..Len(writers[i]) :
              /\ writers[i][k][1] \in Sources
              /\ writers[i][k][2] \in 1..next[writers[i][k][1]]
              /\ strip_extra_bytes => sink_extra[i][k] = <<>>
              /\ ~strip_extra_bytes => sink_extra[i][k] = ExtraBytes(writers[i][k])

\* a run with strip_extra_bytes set returned Ok after writing every record of its source
C11_Witness ==
    /\ strip_extra_bytes
    /\ result = "Ok"
    /\ \E i \in 1..Len(writers) : Len(writers[i]) = MaxPoints

\* every source is empty and every condition accepts every point
EmptyRun ==
    /\ \A s \in Sources : paths[s] = 0
    /\ \A j \in Conds : conditions[j] = "always-true"

C13_CountersMonotone ==
    [][/\ total_points_to_read' >= total_points_to_read
       /\ points_read' >= points_read
       /\ total_points_to_write' >= total_points_to_write
       /\ points_written' >= points_written
       /\ points_read' - mon'.previous_read >= 0
       /\ points_written' - mon'.previous_written >= 0]_vars

\* a tick reports while the counters stand above what the previous report remembered
C13_Witness ==
    /\ mon.held = 4
    /\ mon.previous_read > 0
    /\ points_read > mon.previous_read
    /\ points_written > mon.previous_written

\* C14: points_read <= total_points_to_read <= the declared counts of all sources, and no
\* subtraction of a tick of the monitor went below zero
C14_ReadWithinDeclared ==
    /\ points_read <= total_points_to_read
    /\ total_points_to_read <= SumCounts(paths, Len(paths))
    /\ ~mon.underflow

\* two readers are reading at once, one source is counted and read to its end, and a
\* tick of the monitor is about to subtract
C14_Witness ==
    /\ Cardinality({s \in Sources : Running(s)}) = 2
    /\ \E s \in Sources : next[s] = paths[s] /\ paths[s] > 0
    /\ points_read < total_points_to_read
    /\ mon.held = 4

\* every Sender is gone after the orchestrator handed every job to the pool
Closed == spawned = Len(paths) /\ Disconnected

C15_ErrOnFailure ==
    /\ pp.result \in {"running", "Ok", "Err"}
    /\ pp.failed # "none" => pp.pc = "returned" /\ pp.result = "Err"
    /\ pp.pc = "returned" /\ pp.failed = "none" => pp.result = "Ok"
    /\ pp.pc = "returned" <=> pp.result # "running"

\* a call returned Err for a failed write after it had written a point
C15_Witness ==
    /\ pp.result = "Err"
    /\ pp.failed = "write"
    /\ pp.points_written > 0

\* C16: the run operation ends (mpc = "done": it returned or panicked), every reader job
\* handed to the pool ends, and nothing is left in the channel
C16_RunTerminates ==
    <>(/\ mpc = "done"
       /\ \A s \in Sources : rpc[s] \in {"unspawned", "done"} \cup PanicStates
       /\ chan = <<>>)

\* a run of two sources on one pool thread returned Ok although a reader job failed after
\* reading a record, and the other job's records were written
C16_Witness ==
    /\ result = "Ok"
    /\ Len(paths) = 2
    /\ sendthreads = 1
    /\ \E s \in Sources : rpc[s] = "panic_pull" /\ next[s] > 0
    /\ points_written > 0

\* C18: the channel never buffers more than cap batches, and a step taken while a reader job
\* is in tx.send on a full channel leaves that job where it is, with the records it had read
C18_ChannelBounded ==
    [][/\ Len(chan') <= cap
       /\ \A s \in Sources :
             (rpc[s] \in {"send", "fsend"} /\ rxAlive /\ Len(chan) >= cap) =>
                 /\ rpc'[s] = rpc[s]
                 /\ next'[s] = next[s]
                 /\ points_vecs'[s] = points_vecs[s]]_vars

\* a reader job with records left to read waits in tx.send on a full channel
C18_Witness ==
    /\ Len(chan) = cap
    /\ rxAlive
    /\ \E s \in Sources : rpc[s] = "send" /\ next[s] < paths[s]

\* C19: the monitor runs only after the first source was opened, a reader job is started
\* and reads a record only after every sink was opened
C19_StartupOrder ==
    /\ monitor => header
    /\ spawned > 0 => Len(writers) = output_paths
    /\ \A s \in Sources : next[s] > 0 => Len(writers) = output_paths

Tasks == {"main", "monitor"}

\* C20: no thread holds more than one counter lock at a time
C20_OneLockPerTask == \A task \in Tasks : Cardinality(HeldBy(task)) <= 1

\* C20 as the code has it: a reader and the write loop take a counter lock only for one
\* addition, while the monitor holds up to four counter locks at a time and the orchestrator
\* two after the write loop, each taken in the order points_written, points_read,
\* total_points_to_read, total_points_to_write
C20_LocksInOneOrder ==
    LET order == <<"points_written", "points_read", "total_points_to_read",
                   "total_points_to_write">>
    IN  \A task \in Tasks :
            \E n \in 0..4 :
                /\ HeldBy(task) = {order[k] : k \in 1..n}
                /\ task = "main" => n <= 2 /\ (n > 0 => mpc = "finish")
                /\ mpc \in {"recv", "write"} => HeldBy("main") = {}

\* the monitor holds the four counter locks while a reader is running
C20_Witness ==
    /\ Cardinality(HeldBy("monitor")) = 4
    /\ \E s \in Sources : Running(s)

\* a batch of 1..vec_size records, all of one source
WellSized(vec) ==
    /\ Len(vec) >= 1
    /\ Len(vec) <= vec_size
    /\ \A k \in 1..Len(vec) : vec[k][1] = vec[1][1]

\* C22: every message in the channel and the batch being written hold 1..vec_size records
\* of one source; a local batch is full only while its job is counting or sending it, and
\* it is never over-full; a job that returned normally left no record in a local batch
C22_BatchesWellSized ==
    /\ \A m \in 1..Len(chan) : WellSized(chan[m][2])
    /\ cur # NoBatch => cur.n >= 1 /\ cur.n <= vec_size /\ Len(cur.vec) <= cur.n
    /\ \A s \in Sources : \A j \in Conds :
          /\ Len(points_vecs[s][j]) <= vec_size
          /\ Len(points_vecs[s][j]) = vec_size =>
                rpc[s] \in {"count", "send", "fcount", "fsend"} /\ jx[s] = j
          /\ rpc[s] \in {"count", "send", "fcount", "fsend"} /\ jx[s] = j =>
                WellSized(points_vecs[s][j])
          /\ rpc[s] = "done" => points_vecs[s][j] = <<>>

\* a full batch of two records is in the channel while its job sends a smaller batch of the
\* flush loop
C22_Witness ==
    /\ vec_size = 2
    /\ \E m \in 1..Len(chan) : Len(chan[m][2]) = 2
    /\ \E s \in Sources : rpc[s] = "fsend" /\ Len(points_vecs[s][jx[s]]) = 1

\* C23: a tick that found points_read and points_written as its previous report left them
\* does not go on to the status line (it takes its third lock only past the idle check)
C23_IdleWhenNoChange ==
    mon.held >= 3 =>
        ~(points_read = mon.previous_read /\ points_written = mon.previous_written)

\* C24: once a record has been counted as read, total_points_to_read is the sum of the
\* declared counts of all sources
C24_TotalKnownBeforeFirstRead ==
    points_read > 0 => total_points_to_read = SumCounts(paths, Len(paths))

\* the records appended to all sinks so far
Appended == SumLen(writers, Len(writers))

\* C25 as stated: the written counter is moved after each append, so that it is never more
\* than the one record just appended behind the sinks
C25_CountedPerAppend == points_written + 1 >= Appended

\* C25: the written counter is moved once per batch, after the last append of the batch:
\* it is behind the sinks by exactly the records of the current batch appended so far (a
\* run that panicked in the middle of a batch leaves the counter behind for good)
C25_CountedPerBatch ==
    /\ points_written <= Appended
    /\ cur = NoBatch /\ result # "panic" => points_written = Appended
    /\ cur # NoBatch => Appended - points_written = cur.n - Len(cur.vec)

C25_Witness ==
    /\ mpc = "write"
    /\ cur # NoBatch
    /\ cur.n >= 2
    /\ cur.vec = <<>>
    /\ points_written > 0

\* C26: the monitor divides by total_points_to_read only where it is positive: a tick past
\* the idle check has seen a record read or written, and a record is read only after its
\* source's declared count was added
C26_RatioOverPositiveTotal ==
    /\ ~mon.zero_divisor
    /\ mon.held >= 3 => total_points_to_read > 0

C26_Witness ==
    /\ mon.held = 4
    /\ \E s \in Sources : paths[s] = 0
    /\ \E s \in Sources : rpc[s] = "queued"

\* C27: no tick of the monitor of main.rs divides by zero: where the two quotients are
\* taken, time_elapsed and points_per_second are not zero
C27_NoDivisionByZero ==
    /\ mainrs.pc = "rate" => mainrs.time_elapsed # 0 /\ mainrs.points_per_second # 0
    /\ mainrs.pc # "panic_div"

\* C28: once the run has returned, no task holds a lock of its counters (the orchestrator
\* returns holding the monitor's first two locks, so a lock held afterwards was taken afterwards)
C28_CountersQuietAfterReturn ==
    result = "Ok" => mon.held = 0 /\ locks = AllFree

\* C29: a call pulls at most points_per_cycle points, at most vec_size per request; what is
\* left of the quota never goes below zero; a request made with the quota used up or the
\* reader exhausted ends the call, and every call ends
C29_QuotaRespected ==
    /\ [](/\ pp.pos <= pp.points_per_cycle
          /\ pp.points_read_from_reader <= pp.vec_size
          /\ pp.points_remaining >= 0
          /\ pp.points_remaining = pp.points_per_cycle - pp.pos)
    /\ [][pp.pc = "read" /\ (pp.points_remaining = 0 \/ pp.pos = pp.avail)
            => pp'.pc = "returned" /\ pp'.result = "Ok"]_vars
    /\ <>(pp.pc = "returned")

C29_Witness ==
    /\ pp.pc = "returned"
    /\ pp.result = "Ok"
    /\ pp.points_remaining = 0
    /\ pp.pos >= 1
    /\ pp.pos < pp.avail

\* the records of the batches in the channel
RECURSIVE InChannel(_)
InChannel(n) == IF n = 0 THEN 0 ELSE Len(chan[n][2]) + InChannel(n - 1)

\* the records of the batches a reader has announced and not yet sent
RECURSIVE Announced(_)
Announced(s) ==
    IF s = 0 THEN 0
    ELSE (IF rpc[s] \in {"send", "fsend"} THEN Len(points_vecs[s][jx[s]]) ELSE 0)
         + Announced(s - 1)

\* C30: points_written never exceeds total_points_to_write, so the monitor's subtraction of
\* the two does not go below zero; while nothing has panicked the difference is the records
\* announced and not yet counted as written
C30_WrittenWithinToWrite ==
    /\ points_written <= total_points_to_write
    /\ ~mon.underflow
    /\ result # "panic" /\ ~ReaderFailed =>
          total_points_to_write - points_written
              = Announced(Len(paths)) + InChannel(Len(chan)) + cur.n

C30_Witness ==
    /\ mon.held = 4
    /\ points_written > 0
    /\ total_points_to_write > points_written

\* the steps of the monitor thread
MonitorStep == MonitorLock \/ MonitorIdle \/ MonitorReport

\* the orchestrator has returned or panicked and no reader job is queued or running
RunOver ==
    /\ mpc = "done"
    /\ \A s \in Sources : rpc[s] \in {"unspawned", "done"} \cup PanicStates

\* C31: no state of a run is a deadlock: while the run is not over, the orchestrator or a
\* reader job can take a step, or they wait for a counter lock of the monitor; a monitor
\* that holds a lock can always go on to release it; and a reader job waiting to send holds
\* no counter lock (every lock is held by the orchestrator, by the monitor or by nobody)
C31_NoDeadlock ==
    /\ ~RunOver =>
          \/ ENABLED (MainStep \/ \E s \in Sources : ReaderStep(s))
          \/ HeldBy("monitor") # {}
    /\ HeldBy("monitor") # {} => ENABLED MonitorStep
    /\ \A l \in LockNames : locks[l] \in {"free", "main", "monitor"}
    /\ HeldBy("main") # {} => mpc = "finish"

\* a reader job waits for room in the channel, the orchestrator waits for points_written,
\* and the monitor holds all four counter locks
C31_Witness ==
    /\ \E s \in Sources : rpc[s] \in {"send", "fsend"} /\ ~HasRoom(chan)
    /\ mpc = "write"
    /\ cur.vec = <<>>
    /\ Cardinality(HeldBy("monitor")) = 4

\* the chunk a point of the reader was pulled in: every chunk before the last one of a call
\* has vec_size points
ChunkOf(position) == (position - 1) \div pp.vec_size

\* C32: of two points written by a call, the one written first was read later when both
\* came in one chunk, and came in the earlier chunk otherwise; vec is empty whenever a chunk
\* is pulled and when the call has returned Ok
C32_ReverseWithinChunk ==
    /\ \A a, b \in 1..Len(pp.out) :
          a < b =>
            IF ChunkOf(pp.out[a][2]) = ChunkOf(pp.out[b][2])
            THEN pp.out[a][2] > pp.out[b][2]
            ELSE ChunkOf(pp.out[a][2]) < ChunkOf(pp.out[b][2])
    /\ pp.pc = "read" => pp.vec = <<>>
    /\ pp.pc = "returned" /\ pp.result = "Ok" => pp.vec = <<>>

\* a call that wrote a chunk of two points and then a second chunk
C32_Witness ==
    /\ pp.pc = "returned"
    /\ pp.result = "Ok"
    /\ pp.out = <<<<1, 2>>, <<1, 1>>, <<1, 3>>>>

\* C21: the pool size computed from num_threads >= 1 and output_paths.len() >= 1 is between
\* 1 and num_threads, no subtraction goes below zero and no pool of zero threads is asked for
C21_PoolSizeInRange ==
    /\ pool.pc \notin {"panic_overflow", "panic_zero"}
    /\ pool.pc \in {"computed", "created"} =>
          /\ pool.sendthreads >= 1
          /\ pool.sendthreads <= pool.num_threads

TypeOK ==
    /\ result \in {"running", "Ok", "Err", "panic"}
    /\ mpc \in {"start", "spawn", "writers", "recv", "write", "finish", "done"}
    /\ Len(chan) <= cap
    /\ Len(writers) <= output_paths
====
